---- MODULE Spec2Model ----
(***************************************************************************)
(* website2pdf (src/main.py): the depth-bounded crawl of one site, the     *)
(* table of contents, the concatenation of the rendered documents and the  *)
(* internal links of the table of contents.                                *)
(*                                                                         *)
(* Strings of the program are modelled as sequences of tokens: a URL is a  *)
(* record of its urlparse components, each a sequence of tokens, a link    *)
(* text is a sequence of words.  Lengths on the TOC page are in hundredths *)
(* of a point, so that 0.87 * 792 is the integer 68904.                    *)
(***************************************************************************)
EXTENDS Integers, Sequences, FiniteSets, TLC

\* ------------------------------------------------------------------ bounds
MaxLevel == 2        \* largest --level tried
MaxDocPages == 2     \* largest page count of one rendered document
MaxRecords == 65     \* longest record list handed to the assembly stages
MaxParams == 2       \* longest query string handed to normalize_url
MaxWww == 2          \* most "www." labels in front of a host

\* ---------------------------------------------------------------- strings
\* str.lower() on one token
LowerTok(t) ==
  CASE t = "WWW." -> "www."
    [] t = "E.COM" -> "e.com"
    [] t = "HTTP" -> "http"
    [] t = "A" -> "a"
    [] t = "B" -> "b"
    [] t = "K" -> "k"
    [] t = "Login" -> "login"
    [] t = "LOGIN" -> "login"
    [] t = "Docs" -> "docs"
    [] t = "Home" -> "home"
    [] t = "Next" -> "next"
    [] OTHER -> t

LowerSeq(s) == [i \in 1..Len(s) |-> LowerTok(s[i])]

LowerPairs(q) == [i \in 1..Len(q) |-> <<LowerTok(q[i][1]), LowerTok(q[i][2])>>]

\* Python's order of str: upper-case letters sort before lower-case ones
Rank(t) ==
  CASE t = "" -> 0
    [] t = "1" -> 1
    [] t = "2" -> 2
    [] t = "A" -> 10
    [] t = "B" -> 11
    [] t = "K" -> 12
    [] t = "a" -> 20
    [] t = "b" -> 21
    [] t = "k" -> 22
    [] OTHER -> 30

\* variant of PairLess: the pairs are ordered by their keys alone
PairLess_KeyOnly(p, q) == Rank(p[1]) < Rank(q[1])

PairLess(p, q) == Rank(p[1]) < Rank(q[1]) \/ (Rank(p[1]) = Rank(q[1]) /\ Rank(p[2]) < Rank(q[2]))

RECURSIVE InsertSorted(_, _)
InsertSorted(p, s) ==
  IF s = <<>> THEN <<p>>
  ELSE IF PairLess(p, Head(s)) THEN <<p>> \o s
  ELSE <<Head(s)>> \o InsertSorted(p, Tail(s))

\* sorted(pairs): stable, ascending
RECURSIVE Sorted(_)
Sorted(s) == IF s = <<>> THEN <<>> ELSE InsertSorted(s[Len(s)], Sorted(SubSeq(s, 1, Len(s) - 1)))

\* a in b for str: a occurs as a contiguous run of b
IsSubstring(a, b) ==
  \E k \in 0..Len(b) : k + Len(a) <= Len(b) /\ \A j \in 1..Len(a) : b[k + j] = a[j]

\* -------------------------------------------------------------------- URLs
Url(scheme, netloc, path, query, fragment) ==
  [scheme |-> scheme, netloc |-> netloc, path |-> path, query |-> query, fragment |-> fragment]

\* urlparse raises ValueError on an unbalanced bracket in the host
IsMalformed(url) == \E i \in 1..Len(url.netloc) : url.netloc[i] = "["

\* parse_qsl: pairs with a blank value are dropped
RECURSIVE parse_qsl(_)
parse_qsl(q) ==
  IF q = <<>> THEN <<>>
  ELSE IF Head(q)[2] = "" THEN parse_qsl(Tail(q))
  ELSE <<Head(q)>> \o parse_qsl(Tail(q))

\* str.rstrip("/")
RECURSIVE RStripSlash(_)
RStripSlash(p) ==
  IF p # <<>> /\ p[Len(p)] = "/" THEN RStripSlash(SubSeq(p, 1, Len(p) - 1)) ELSE p

StripWww(n) == IF n # <<>> /\ n[1] = "www." THEN Tail(n) ELSE n

StripPort(n) ==
  IF n # <<>> /\ n[Len(n)] = ":80" THEN SubSeq(n, 1, Len(n) - 1)
  ELSE IF n # <<>> /\ n[Len(n)] = ":443" THEN SubSeq(n, 1, Len(n) - 1)
  ELSE n

normalize_url(url) ==
  Url(LowerTok(url.scheme),
      LowerSeq(StripPort(StripWww(LowerSeq(url.netloc)))),
      LowerSeq(RStripSlash(url.path)),
      LowerPairs(Sorted(parse_qsl(url.query))),
      "")

\* the directory of a base path: everything up to its last "/"
RECURSIVE DirOf(_)
DirOf(p) ==
  IF p = <<>> THEN <<"/">>
  ELSE IF p[Len(p)] = "/" THEN p
  ELSE DirOf(SubSeq(p, 1, Len(p) - 1))

\* urljoin(base, href) for the href shapes of the sites below
urljoin(base, href) ==
  IF href.scheme # "" THEN href
  ELSE IF href.netloc # <<>> THEN [href EXCEPT !.scheme = base.scheme]
  ELSE IF href.path = <<>> THEN
    Url(base.scheme, base.netloc, base.path,
        IF href.query # <<>> THEN href.query ELSE base.query, href.fragment)
  ELSE IF href.path[1] = "/" THEN
    Url(base.scheme, base.netloc, href.path, href.query, href.fragment)
  ELSE
    Url(base.scheme, base.netloc, DirOf(base.path) \o href.path, href.query, href.fragment)

\* re.sub(r"[^a-zA-Z0-9]", "_", s) on one token
SubTok(t) ==
  CASE t = "/" -> "_"
    [] t = "-" -> "_"
    [] t = "." -> "_"
    [] t = "e.com" -> "e_com"
    [] t = "x.org" -> "x_org"
    [] t = "www." -> "www_"
    [] t = ":8080" -> "_8080"
    [] t = ":80" -> "_80"
    [] t = ":443" -> "_443"
    [] OTHER -> t

RECURSIVE QueryTokens(_)
QueryTokens(q) ==
  IF q = <<>> THEN <<>>
  ELSE <<Head(q)[1], "=", Head(q)[2]>> \o (IF Len(q) > 1 THEN <<"&">> ELSE <<>>) \o QueryTokens(Tail(q))

\* urlunparse: the tokens of the URL as one string
urlunparse(u) ==
  (IF u.scheme # "" THEN <<u.scheme, ":">> ELSE <<>>)
  \o (IF u.netloc # <<>> THEN <<"/", "/">> \o u.netloc ELSE <<>>)
  \o u.path
  \o (IF u.query # <<>> THEN <<"?">> \o QueryTokens(u.query) ELSE <<>>)
  \o (IF u.fragment # "" THEN <<"#", u.fragment>> ELSE <<>>)

SubNonAlnum(s) == [i \in 1..Len(s) |-> IF s[i] \in {":", "?", "=", "&", "#"} THEN "_" ELSE SubTok(s[i])]

\* os.path.join(OUTPUT_DIR, f"{sanitized_url}.pdf")
PagePath(nurl) == <<"website_pdfs", "/">> \o SubNonAlnum(urlunparse(nurl)) \o <<".pdf">>

\* ------------------------------------------------------------------- sites
\* What the rendering collaborator returns for a URL: the HTML (named by its
\* content), the first <h1>, the <title>, the anchors in document order and
\* the number of pages page.pdf lays the page out on.
Title(txt, len) == [txt |-> txt, len |-> len]

NoTitle == Title("", 0)

Link(text, href) == [text |-> text, href |-> href]

Page(at, html, h1, ptitle, links, pages) ==
  [at |-> at, html |-> html, h1 |-> h1, ptitle |-> ptitle, links |-> links, pages |-> pages]

Http(netloc, path) == Url("http", netloc, path, <<>>, "")

Rel(path) == Url("", <<>>, path, <<>>, "")

RootUrl == Http(<<"e.com">>, <<>>)
UrlA == Http(<<"e.com">>, <<"/", "a">>)
UrlB == Http(<<"e.com">>, <<"/", "b">>)
UrlC == Http(<<"e.com">>, <<"/", "c">>)
UrlExt == Http(<<"x.org">>, <<"/", "a">>)
UrlBad == Http(<<"[">>, <<>>)

NoPage == Page(RootUrl, "", NoTitle, NoTitle, <<>>, 0)

\* the error page served for a URL the site does not have
NotFound(url) == Page(normalize_url(url), "h404", Title("Not Found", 9), Title("404", 3), <<>>, 1)

\* A -> B -> A, and both link back to the root
SiteCycle ==
  [root |-> Http(<<"e.com">>, <<"/">>),
   pages |-> <<
     Page(RootUrl, "hR", Title("Home", 4), Title("home", 4),
          <<Link(<<"Docs">>, UrlA)>>, 1),
     Page(UrlA, "hA", NoTitle, Title("A", 1),
          <<Link(<<"Next">>, UrlB), Link(<<"Home">>, RootUrl)>>, 2),
     Page(UrlB, "hB", Title("B", 1), Title("b", 1),
          <<Link(<<"Docs">>, Http(<<"e.com">>, <<"/", "A", "/">>)), Link(<<"Home">>, RootUrl)>>, 1) >>]

\* root -> A -> B -> C
SiteChain ==
  [root |-> RootUrl,
   pages |-> <<
     Page(RootUrl, "hR", Title("Home", 4), Title("home", 4), <<Link(<<"Docs">>, UrlA)>>, 1),
     Page(UrlA, "hA", Title("A", 1), Title("a", 1), <<Link(<<"Next">>, UrlB)>>, 1),
     Page(UrlB, "hB", Title("B", 75), Title("b", 1), <<Link(<<"Next">>, UrlC)>>, 2),
     Page(UrlC, "hC", Title("C", 1), Title("c", 1), <<>>, 1) >>]

\* the root and three linked pages, the third serving the HTML of the first
SiteEndToEnd ==
  [root |-> RootUrl,
   pages |-> <<
     Page(RootUrl, "hR", Title("Home", 4), Title("home", 4),
          <<Link(<<"Docs">>, UrlA), Link(<<"Next">>, UrlB), Link(<<"Docs">>, UrlC)>>, 1),
     Page(UrlA, "hA", Title("A", 1), Title("a", 1), <<>>, 2),
     Page(UrlB, "hB", Title("B", 1), Title("b", 1), <<>>, 1),
     Page(UrlC, "hA", Title("A", 1), Title("a", 1), <<>>, 2) >>]

\* root -> A -> B -> C and root -> B: B is first reached through A
SiteLongerPathFirst ==
  [root |-> RootUrl,
   pages |-> <<
     Page(RootUrl, "hR", Title("Home", 4), Title("home", 4),
          <<Link(<<"Docs">>, UrlA), Link(<<"Next">>, UrlB)>>, 1),
     Page(UrlA, "hA", Title("A", 1), Title("a", 1), <<Link(<<"Next">>, UrlB)>>, 1),
     Page(UrlB, "hB", Title("B", 1), Title("b", 1), <<Link(<<"Next">>, UrlC)>>, 1),
     Page(UrlC, "hC", Title("C", 1), Title("c", 1), <<>>, 1) >>]

\* anchors of every kind on the root, and a malformed href on page A
SiteMixed ==
  [root |-> RootUrl,
   pages |-> <<
     Page(RootUrl, "hR", NoTitle, Title("home", 4),
          <<Link(<<"Top">>, Url("", <<>>, <<>>, <<>>, "top")),
            Link(<<"Other">>, UrlExt),
            Link(<<"User", "LOGIN">>, UrlC),
            Link(<<"Docs">>, Rel(<<"a">>)),
            Link(<<>>, UrlB),
            Link(<<"Next">>, UrlC)>>, 1),
     Page(UrlA, "hA", Title("A", 1), Title("a", 1),
          <<Link(<<"Bad">>, UrlBad), Link(<<"Next">>, UrlB)>>, 1),
     Page(UrlB, "hB", Title("B", 1), Title("b", 1), <<>>, 1),
     Page(UrlC, "hC", Title("C", 1), Title("c", 1), <<>>, 1) >>]

\* the ways of writing the root URL of one host
RootForms == {<<"www.", "e.com">>, <<"E.COM">>, <<"e.com", ":80">>}

\* a root given with netloc n, whose page links to a page of the same host,
\* written as the root is, and to another host
SiteRootForm(n) ==
  [root |-> Http(n, <<"/">>),
   pages |-> <<
     Page(RootUrl, "hR", Title("Home", 4), Title("home", 4),
          <<Link(<<"Other">>, UrlExt), Link(<<"Docs">>, Http(n, <<"/", "a">>))>>, 1),
     Page(UrlA, "hA", Title("A", 1), Title("a", 1), <<>>, 1) >>]

UrlDocsA == Http(<<"e.com">>, <<"/", "docs", "/", "a">>)
UrlDocsB == Http(<<"e.com">>, <<"/", "docs", "/", "b">>)

\* the root links to /docs/a, which links to its sibling by the relative href "b"
SiteRelative ==
  [root |-> RootUrl,
   pages |-> <<
     Page(RootUrl, "hR", Title("Home", 4), Title("home", 4), <<Link(<<"Docs">>, UrlDocsA)>>, 1),
     Page(UrlDocsA, "hDA", Title("A", 1), Title("a", 1), <<Link(<<"Next">>, Rel(<<"b">>))>>, 1),
     Page(UrlDocsB, "hDB", Title("B", 1), Title("b", 1), <<>>, 2),
     Page(UrlB, "hB", Title("K", 1), Title("k", 1), <<>>, 1) >>]

UrlASlashB == Http(<<"e.com">>, <<"/", "a", "/", "b">>)
UrlADashB == Http(<<"e.com">>, <<"/", "a", "-", "b">>)

\* two pages whose URLs differ in one non-alphanumeric character
SiteCollide ==
  [root |-> RootUrl,
   pages |-> <<
     Page(RootUrl, "hR", Title("Home", 4), Title("home", 4),
          <<Link(<<"Docs">>, UrlASlashB), Link(<<"Next">>, UrlADashB)>>, 1),
     Page(UrlASlashB, "hS", Title("A", 1), Title("a", 1), <<>>, 1),
     Page(UrlADashB, "hD", Title("B", 1), Title("b", 1), <<>>, 2) >>]

\* root -> A -> C and root -> B: C is found before B
SiteTree ==
  [root |-> RootUrl,
   pages |-> <<
     Page(RootUrl, "hR", Title("Home", 4), Title("home", 4),
          <<Link(<<"Docs">>, UrlA), Link(<<"Next">>, UrlB)>>, 1),
     Page(UrlA, "hA", Title("A", 1), Title("a", 1), <<Link(<<"Next">>, UrlC)>>, 2),
     Page(UrlB, "hB", Title("B", 1), Title("b", 1), <<>>, 1),
     Page(UrlC, "hC", Title("C", 1), Title("c", 1), <<>>, 1) >>]

Sites ==
  {SiteCycle, SiteChain, SiteEndToEnd, SiteLongerPathFirst, SiteMixed, SiteRelative,
   SiteCollide, SiteTree}
  \cup {SiteRootForm(n) : n \in RootForms}

\* the values of --exclude tried
ExcludeChoices == {<<>>, <<<<"login">>>>}

\* page.goto(url) followed by page.content(): the page the site serves
PageAt(s, url) ==
  IF \E k \in 1..Len(s.pages) : s.pages[k].at = normalize_url(url)
  THEN s.pages[CHOOSE k \in 1..Len(s.pages) : s.pages[k].at = normalize_url(url)]
  ELSE NotFound(url)

\* hashlib.sha256(content.encode("utf-8")).hexdigest(): one digest per content
sha256(html) == <<"sha256", html>>

\* ------------------------------------------------------------------- state
VARIABLES
  site,            \* the site crawled (what the browser renders for each URL)
  max_depth,       \* args.level
  exclude_texts,   \* args.exclude
  visited,         \* set of normalized URLs
  visited_hashes,  \* set of content digests
  pdf_info,        \* list of page records
  stack,           \* the activations of crawl_and_save_pdf, innermost last
  exc,             \* TRUE while an exception propagates to the caller
  contexts,        \* browser contexts open
  pages_open,      \* browser pages open
  files,           \* the documents in OUTPUT_DIR, one per file path
  log,             \* what the run did so far, in order
  stage,           \* where main() is
  toc,             \* the locals of create_table_of_contents
  link_rects,      \* result of create_table_of_contents
  toc_file,        \* the pages of toc.pdf, each the strings drawn on it
  writer,          \* combine_pdfs: the pages of the writer, the records done
  total_pages,     \* the running counter of combine_pdfs
  output,          \* the file at the final output path
  url_in,          \* normalize_url on its own: the argument
  url_perm,        \* the same URL with its query parameters in another order
  normalized,      \* normalize_url(url), then normalize_url of that result
  normalized_perm  \* normalize_url(url_perm)

vars == <<site, max_depth, exclude_texts, visited, visited_hashes, pdf_info, stack, exc,
          contexts, pages_open, files, log, stage, toc, link_rects, toc_file, writer,
          total_pages, output, url_in, url_perm, normalized, normalized_perm>>

normVars == <<url_in, url_perm, normalized, normalized_perm>>

\* what no step of main() changes
inputVars == <<site, max_depth, exclude_texts, normVars>>

crawlVars == <<visited, visited_hashes, pdf_info, stack, exc, contexts, pages_open, files, log>>

mainVars == <<toc, link_rects, toc_file, writer, total_pages, output>>

\* Python's None in the integer fields of a record
None == -1

\* the final output path holds no file
NoOutput == [state |-> "absent", pages |-> <<>>, links |-> <<>>]

\* create_table_of_contents is not running
NoToc == [c |-> [done |-> <<>>, cur |-> <<>>], y_position |-> 0, link_rects |-> <<>>,
          page_number |-> 0, i |-> 0]

\* combine_pdfs is not running
NoWriter == [pages |-> <<>>, i |-> 0]

\* one activation of crawl_and_save_pdf(url, ..., depth, ...)
Frame(url, depth) ==
  [url |-> url, normalized_url |-> normalize_url(url), depth |-> depth, pc |-> "enter",
   page |-> NoPage, i |-> 1]

Top == stack[Len(stack)]

Pop == SubSeq(stack, 1, Len(stack) - 1)

SetTop(f) == [stack EXCEPT ![Len(stack)] = f]

\* the links followed from the root down to the innermost activation: the
\* loop of each caller stands one past the link it followed
Via == [k \in 1..(Len(stack) - 1) |-> stack[k].i - 1]

Event(ev, f) ==
  [ev |-> ev, url |-> f.normalized_url, depth |-> f.depth, html |-> f.page.html, via |-> Via]

At(pc) == stage = "crawl" /\ ~exc /\ stack # <<>> /\ Top.pc = pc

Init ==
  /\ site \in Sites
  /\ max_depth \in 0..MaxLevel
  /\ exclude_texts \in ExcludeChoices
  /\ visited = {}
  /\ visited_hashes = {}
  /\ pdf_info = <<>>
  /\ stack = <<Frame(site.root, 0)>>
  /\ exc = FALSE
  /\ contexts = 0
  /\ pages_open = 0
  /\ files = {}
  /\ log = <<>>
  /\ stage = "crawl"
  /\ toc = NoToc
  /\ link_rects = <<>>
  /\ toc_file = <<>>
  /\ writer = NoWriter
  /\ total_pages = 0
  /\ output = NoOutput
  /\ url_in = RootUrl
  /\ url_perm = RootUrl
  /\ normalized = <<>>
  /\ normalized_perm = <<>>

\* --------------------------------------------------------------- the crawl
\* variant of StopsAtEntry: the depth is not looked at
StopsAtEntry_NoDepth(normalized_url, depth) == normalized_url \in visited

\* variant of StopsAtEntry: one level more is let in
StopsAtEntry_Beyond(normalized_url, depth) == normalized_url \in visited \/ depth > max_depth + 1

\* main.py:58  if normalized_url in visited or depth > max_depth: return
StopsAtEntry(normalized_url, depth) == normalized_url \in visited \/ depth > max_depth

\* variant of MarkVisited: the URL is added as given, not normalized
MarkVisited_Raw(f) == visited \cup {f.url}

\* main.py:60  visited.add(normalized_url)
MarkVisited(f) == visited \cup {f.normalized_url}

\* main.py:57-60
Enter ==
  /\ At("enter")
  /\ IF StopsAtEntry(Top.normalized_url, Top.depth)
     THEN /\ stack' = Pop
          /\ visited' = visited
          /\ log' = Append(log, Event("stop", Top))
     ELSE /\ visited' = MarkVisited(Top)
          /\ stack' = SetTop([Top EXCEPT !.pc = "new_context"])
          /\ log' = log
  /\ UNCHANGED <<visited_hashes, pdf_info, exc, contexts, pages_open, files>>
  /\ UNCHANGED <<inputVars, stage, mainVars>>

\* main.py:63  context = await browser.new_context()
NewContext ==
  /\ At("new_context")
  /\ contexts' = contexts + 1
  /\ stack' = SetTop([Top EXCEPT !.pc = "new_page"])
  /\ UNCHANGED <<visited, visited_hashes, pdf_info, exc, pages_open, files, log>>
  /\ UNCHANGED <<inputVars, stage, mainVars>>

\* main.py:64  page = await context.new_page()
NewPage ==
  /\ At("new_page")
  /\ pages_open' = pages_open + 1
  /\ stack' = SetTop([Top EXCEPT !.pc = "goto"])
  /\ UNCHANGED <<visited, visited_hashes, pdf_info, exc, contexts, files, log>>
  /\ UNCHANGED <<inputVars, stage, mainVars>>

\* main.py:63-64 raise: the statements stand before the try, so neither the
\* except nor the finally of this activation runs
OpenFails ==
  /\ At("new_context") \/ At("new_page")
  /\ exc' = TRUE
  /\ log' = Append(log, Event("open_failed", Top))
  /\ stack' = Pop
  /\ UNCHANGED <<visited, visited_hashes, pdf_info, contexts, pages_open, files>>
  /\ UNCHANGED <<inputVars, stage, mainVars>>

\* main.py:68-72  goto, zoom, content
Goto ==
  /\ At("goto")
  /\ LET f == [Top EXCEPT !.pc = "hash", !.page = PageAt(site, Top.url)]
     IN /\ stack' = SetTop(f)
        /\ log' = Append(log, Event("goto", f))
  /\ UNCHANGED <<visited, visited_hashes, pdf_info, exc, contexts, pages_open, files>>
  /\ UNCHANGED <<inputVars, stage, mainVars>>

\* main.py:68-72 raise (navigation error, timeout); caught at main.py:147
GotoFails ==
  /\ At("goto")
  /\ stack' = SetTop([Top EXCEPT !.pc = "finally"])
  /\ log' = Append(log, Event("goto_failed", Top))
  /\ UNCHANGED <<visited, visited_hashes, pdf_info, exc, contexts, pages_open, files>>
  /\ UNCHANGED <<inputVars, stage, mainVars>>

\* main.py:73-78
CheckHash ==
  /\ At("hash")
  /\ IF sha256(Top.page.html) \in visited_hashes
     THEN /\ stack' = SetTop([Top EXCEPT !.pc = "finally"])
          /\ visited_hashes' = visited_hashes
          /\ log' = Append(log, Event("duplicate", Top))
     ELSE /\ visited_hashes' = visited_hashes \cup {sha256(Top.page.html)}
          /\ stack' = SetTop([Top EXCEPT !.pc = "pdf"])
          /\ log' = log
  /\ UNCHANGED <<visited, pdf_info, exc, contexts, pages_open, files>>
  /\ UNCHANGED <<inputVars, stage, mainVars>>

\* the document page.pdf writes for the page of activation f
Document(f) == [path |-> PagePath(f.normalized_url), pages |-> f.page.pages, of |-> f.normalized_url]

\* writing a file replaces the file of the same path
WriteFile(fs, doc) == {d \in fs : d.path # doc.path} \cup {doc}

\* main.py:81-84  page.pdf(path=page_path)
SavePdf ==
  /\ At("pdf")
  /\ files' = WriteFile(files, Document(Top))
  /\ stack' = SetTop([Top EXCEPT !.pc = "title"])
  /\ log' = Append(log, Event("saved", Top))
  /\ UNCHANGED <<visited, visited_hashes, pdf_info, exc, contexts, pages_open>>
  /\ UNCHANGED <<inputVars, stage, mainVars>>

\* main.py:83 raises (render or write error); caught at main.py:147
SavePdfFails ==
  /\ At("pdf")
  /\ stack' = SetTop([Top EXCEPT !.pc = "finally"])
  /\ log' = Append(log, Event("save_failed", Top))
  /\ UNCHANGED <<visited, visited_hashes, pdf_info, exc, contexts, pages_open, files>>
  /\ UNCHANGED <<inputVars, stage, mainVars>>

\* main.py:89-94  the first <h1> if it has text, else page.title()
TitleOf(page) == IF page.h1.len > 0 THEN page.h1 ELSE page.ptitle

\* variant of Record: the page fields start at 0
Record_Zero(f) ==
  [title |-> TitleOf(f.page), url |-> f.normalized_url, file_path |-> PagePath(f.normalized_url),
   num_pages |-> 0, start_page |-> 0]

\* main.py:97-105  the record appended for activation f
Record(f) ==
  [title |-> TitleOf(f.page), url |-> f.normalized_url, file_path |-> PagePath(f.normalized_url),
   num_pages |-> None, start_page |-> None]

\* variant of AppendTo: the record is put in front of the list
AppendTo_Front(info, rec) == <<rec>> \o info

\* main.py:97  pdf_info.append(...)
AppendTo(info, rec) == Append(info, rec)

\* main.py:86-105
AppendRecord ==
  /\ At("title")
  /\ pdf_info' = AppendTo(pdf_info, Record(Top))
  /\ stack' = SetTop([Top EXCEPT !.pc = "links", !.i = 1])
  /\ log' = Append(log, Event("append", Top))
  /\ UNCHANGED <<visited, visited_hashes, exc, contexts, pages_open, files>>
  /\ UNCHANGED <<inputVars, stage, mainVars>>

\* main.py:94  page.title() raises; reached only without a usable <h1>
TitleFails ==
  /\ At("title")
  /\ Top.page.h1.len = 0
  /\ stack' = SetTop([Top EXCEPT !.pc = "finally"])
  /\ log' = Append(log, Event("title_failed", Top))
  /\ UNCHANGED <<visited, visited_hashes, pdf_info, exc, contexts, pages_open, files>>
  /\ UNCHANGED <<inputVars, stage, mainVars>>

\* main.py:119-123
IsExcluded(link_text) ==
  \E k \in 1..Len(exclude_texts) :
    Len(link_text) = 0 \/ IsSubstring(LowerSeq(exclude_texts[k]), LowerSeq(link_text))

\* main.py:111-113  next_url = urljoin(base_url, href)
NextUrl(href) == urljoin(site.root, href)

\* main.py:128-133
IsFollowed(next_url) ==
  /\ normalize_url(next_url).netloc = site.root.netloc
  /\ normalize_url(next_url) \notin visited

\* variant of ChildDepth: the callee is taken to be two levels down
ChildDepth_Two(depth) == depth + 2

\* main.py:141  depth + 1
ChildDepth(depth) == depth + 1

CurrentLink == Top.page.links[Top.i]

AtLink == At("links") /\ Top.i <= Len(Top.page.links)

\* variant of NextIndex: the loop stays on the same link
NextIndex_Stuck(i) == i

\* the loop index after the link at index i
NextIndex(i) == i + 1

\* main.py:108-133  a link that is not descended into
SkipLink ==
  /\ AtLink
  /\ ~IsMalformed(CurrentLink.href)
  /\ IsExcluded(CurrentLink.text) \/ ~IsFollowed(NextUrl(CurrentLink.href))
  /\ stack' = SetTop([Top EXCEPT !.i = NextIndex(Top.i)])
  /\ UNCHANGED <<visited, visited_hashes, pdf_info, exc, contexts, pages_open, files, log>>
  /\ UNCHANGED <<inputVars, stage, mainVars>>

\* main.py:134-145  the recursive call; the loop goes on when it returns
FollowLink ==
  /\ AtLink
  /\ ~IsMalformed(CurrentLink.href)
  /\ ~IsExcluded(CurrentLink.text)
  /\ IsFollowed(NextUrl(CurrentLink.href))
  /\ stack' = Append(SetTop([Top EXCEPT !.i = NextIndex(Top.i)]),
                     Frame(NextUrl(CurrentLink.href), ChildDepth(Top.depth)))
  /\ log' = Append(log, [Event("follow", Top) EXCEPT !.url = normalize_url(NextUrl(CurrentLink.href))])
  /\ UNCHANGED <<visited, visited_hashes, pdf_info, exc, contexts, pages_open, files>>
  /\ UNCHANGED <<inputVars, stage, mainVars>>

\* main.py:111-116  urljoin raises ValueError on a malformed href; caught at
\* main.py:147, which ends the loop over the links of this page
LinkRaises ==
  /\ AtLink
  /\ IsMalformed(CurrentLink.href)
  /\ stack' = SetTop([Top EXCEPT !.pc = "finally"])
  /\ log' = Append(log, Event("href_failed", Top))
  /\ UNCHANGED <<visited, visited_hashes, pdf_info, exc, contexts, pages_open, files>>
  /\ UNCHANGED <<inputVars, stage, mainVars>>

\* main.py:108  the loop is over
LinksDone ==
  /\ At("links")
  /\ Top.i > Len(Top.page.links)
  /\ stack' = SetTop([Top EXCEPT !.pc = "finally"])
  /\ UNCHANGED <<visited, visited_hashes, pdf_info, exc, contexts, pages_open, files, log>>
  /\ UNCHANGED <<inputVars, stage, mainVars>>

\* main.py:147-148  the exception of a callee arrives inside the try of the
\* caller, at the await of main.py:135
Catch ==
  /\ stage = "crawl" /\ exc /\ stack # <<>>
  /\ exc' = FALSE
  /\ stack' = SetTop([Top EXCEPT !.pc = "finally"])
  /\ log' = Append(log, Event("caught", Top))
  /\ UNCHANGED <<visited, visited_hashes, pdf_info, contexts, pages_open, files>>
  /\ UNCHANGED <<inputVars, stage, mainVars>>

\* main.py:150-152  page.close(), context.close(), return
Finally ==
  /\ At("finally")
  /\ pages_open' = pages_open - 1
  /\ contexts' = contexts - 1
  /\ stack' = Pop
  /\ log' = Append(log, Event("return", Top))
  /\ UNCHANGED <<visited, visited_hashes, pdf_info, exc, files>>
  /\ UNCHANGED <<inputVars, stage, mainVars>>

\* main.py:262-273  the outermost call returned; browser.close()
CrawlReturns ==
  /\ stage = "crawl" /\ stack = <<>> /\ ~exc
  /\ stage' = "crawled"
  /\ UNCHANGED <<inputVars, crawlVars, mainVars>>

\* main.py:262  the outermost call raised: main() is left by the exception
CrawlRaises ==
  /\ stage = "crawl" /\ stack = <<>> /\ exc
  /\ stage' = "aborted"
  /\ UNCHANGED <<inputVars, crawlVars, mainVars>>

\* ------------------------------------------------------ table of contents
\* main.py:156-157  PPI = 72, page_size = (8.5 * PPI, 11 * PPI), in 1/100 pt
PageHeight == 79200

\* main.py:170  0.87 * page_size[1]
TopY == (87 * PageHeight) \div 100

\* main.py:194  y_position -= 20
LineStep == 2000

\* main.py:196  if y_position < 50
BottomY == 5000

\* main.py:183  c.drawString(50, ...)
LeftX == 5000

\* main.py:177  the title budget and the length kept before the "..."
TitleBudget == 60
TitleKept == 57

\* main.py:186  c.stringWidth(link_text, "Helvetica", 12): the font metrics
\* are the drawing collaborator's; a nominal width per character stands for them
CharWidth == 600

stringWidth(text) == text.len * CharWidth

\* main.py:176-178
Shorten(title) ==
  IF title.len <= TitleBudget THEN title ELSE Title(title.txt, TitleKept + 3)

\* main.py:187-191
LinkRect(link_text, y_position) ==
  [x1 |-> LeftX, y1 |-> y_position - 200, x2 |-> LeftX + stringWidth(link_text),
   y2 |-> y_position + 1000]

\* a string drawn on the canvas; entry is the index in pdf_info of the record
\* whose title it is, 0 for the header
Drawn(text, y, entry) == [text |-> text, y |-> y, entry |-> entry]

\* main.py:158-168  the canvas after the header is drawn: no finished page,
\* three strings on the current one
NewCanvas ==
  [done |-> <<>>,
   cur |-> <<Drawn(Title("Shotcut User Guide", 18), (95 * PageHeight) \div 100, 0),
             Drawn(Title("Table of Contents", 17), (92 * PageHeight) \div 100, 0),
             Drawn(Title("date", 6), (92 * PageHeight) \div 100, 0)>>]

\* canvas.showPage(): the current page is finished and an empty one started
showPage(c) == [done |-> Append(c.done, c.cur), cur |-> <<>>]

\* canvas.save(): a page with something on it is finished first
save(c) == IF c.cur # <<>> THEN Append(c.done, c.cur) ELSE c.done

\* main.py:170-174  the locals before the loop; i counts the records done
TocStart ==
  [c |-> NewCanvas, y_position |-> TopY, link_rects |-> <<<<>>>>, page_number |-> 0, i |-> 0]

\* variant of FileRect: every rectangle goes to the list of the first page
FileRect_FirstPage(rects, page_number, rect) ==
  [rects EXCEPT ![1] = Append(@, rect)]

\* main.py:192  link_rects[page_number].append(link_rect)
FileRect(rects, page_number, rect) ==
  [rects EXCEPT ![page_number + 1] = Append(@, rect)]

\* main.py:196  the page is full once the next line would start below the margin
PageIsFull(y_position) == y_position < BottomY

\* main.py:175-200  one iteration of the loop, for the record at index i
TocEntry(t, entry, i) ==
  LET link_text == Shorten(entry.title)
      drawn == [t.c EXCEPT !.cur = Append(@, Drawn(link_text, t.y_position, i))]
      rects == FileRect(t.link_rects, t.page_number, LinkRect(link_text, t.y_position))
      y == t.y_position - LineStep
  IN IF PageIsFull(y)
     THEN [c |-> showPage(drawn), y_position |-> TopY, link_rects |-> Append(rects, <<>>),
           page_number |-> t.page_number + 1, i |-> i]
     ELSE [c |-> drawn, y_position |-> y, link_rects |-> rects, page_number |-> t.page_number,
           i |-> i]

\* variant of DropFirst: the list is kept whole
DropFirst_Keep(info) == info

\* main.py:276  pdf_info[1:]
DropFirst(info) == IF info = <<>> THEN <<>> ELSE Tail(info)

\* main.py:275-277  pdf_info = pdf_info[1:]
SkipFirst ==
  /\ stage = "crawled"
  /\ pdf_info' = DropFirst(pdf_info)
  /\ stage' = "toc"
  /\ UNCHANGED <<visited, visited_hashes, stack, exc, contexts, pages_open, files, log>>
  /\ UNCHANGED <<inputVars, mainVars>>

\* main.py:155-172  called at main.py:278: the header is drawn
create_table_of_contents ==
  /\ stage = "toc"
  /\ toc' = TocStart
  /\ stage' = "toc_loop"
  /\ UNCHANGED <<inputVars, crawlVars, link_rects, toc_file, writer, total_pages, output>>

\* main.py:174-200  one iteration of the loop
DrawEntry ==
  /\ stage = "toc_loop"
  /\ toc.i < Len(pdf_info)
  /\ toc' = TocEntry(toc, pdf_info[toc.i + 1], toc.i + 1)
  /\ UNCHANGED <<inputVars, crawlVars, stage, link_rects, toc_file, writer, total_pages, output>>

\* main.py:202-205  c.save(); return link_rects
SaveToc ==
  /\ stage = "toc_loop"
  /\ toc.i = Len(pdf_info)
  /\ toc_file' = save(toc.c)
  /\ link_rects' = toc.link_rects
  /\ stage' = "combine"
  /\ UNCHANGED <<inputVars, crawlVars, toc, writer, total_pages, output>>

\* ---------------------------------------------------------------- assembly
\* the pages a reader yields for a document of n pages rendered for `of`
PagesOf(of, n) == [k \in 1..n |-> [doc |-> of, page |-> k]]

\* PdfReader(toc_filename).pages
TocPages == PagesOf("toc", Len(toc_file))

HasFile(path) == \E d \in files : d.path = path

FileAt(path) == CHOOSE d \in files : d.path = path

\* variant of StartPage: pages counted from 1
StartPage_OneBased(total) == total + 1

\* main.py:222  info["start_page"] = total_pages
StartPage(total) == total

\* variant of Advance: the counter goes up by one per document
Advance_ByOne(total, num_pages) == total + 1

\* main.py:223  total_pages += num_pages
Advance(total, num_pages) == total + num_pages

\* main.py:209-215  called at main.py:282: the TOC pages open the writer
combine_pdfs ==
  /\ stage = "combine"
  /\ writer' = [pages |-> TocPages, i |-> 0]
  /\ total_pages' = Len(TocPages)
  /\ stage' = "combine_loop"
  /\ UNCHANGED <<inputVars, crawlVars, toc, link_rects, toc_file, output>>

\* the record of the next iteration of the loop of main.py:218
NextInfo == writer.i + 1

\* main.py:218-225  one iteration of the loop
AppendDocument ==
  /\ stage = "combine_loop"
  /\ NextInfo <= Len(pdf_info)
  /\ HasFile(pdf_info[NextInfo].file_path)
  /\ LET d == FileAt(pdf_info[NextInfo].file_path)
     IN /\ pdf_info' = [pdf_info EXCEPT ![NextInfo] =
                          [@ EXCEPT !.num_pages = d.pages, !.start_page = StartPage(total_pages)]]
        /\ total_pages' = Advance(total_pages, d.pages)
        /\ writer' = [pages |-> writer.pages \o PagesOf(d.of, d.pages), i |-> NextInfo]
  /\ UNCHANGED <<visited, visited_hashes, stack, exc, contexts, pages_open, files, log>>
  /\ UNCHANGED <<inputVars, stage, toc, link_rects, toc_file, output>>

\* main.py:219  PdfReader raises on the document of the next record (missing
\* or corrupt): the exception leaves main(), nothing was written yet
CombineFails ==
  /\ stage = "combine_loop"
  /\ NextInfo <= Len(pdf_info)
  /\ stage' = "aborted"
  /\ UNCHANGED <<inputVars, crawlVars, mainVars>>

\* main.py:228-231  the combined document is written, without annotations
WriteCombined ==
  /\ stage = "combine_loop"
  /\ NextInfo > Len(pdf_info)
  /\ output' = [state |-> "merged", pages |-> writer.pages, links |-> <<>>]
  /\ stage' = "annotate"
  /\ UNCHANGED <<inputVars, crawlVars, toc, link_rects, toc_file, writer, total_pages>>

\* -------------------------------------------------------------- annotation
\* main.py:243  links_per_page = len(link_rects[0])
LinksPerPage(rects) == Len(rects[1])

\* variant of InfoIndex: the links of the earlier TOC pages are not counted
InfoIndex_NoPage(links_per_page, page_number, link_number) == link_number + 1

\* main.py:246  the index in pdf_info for link link_number of TOC page
\* page_number, both counted from 0; the model's lists are indexed from 1
InfoIndex(links_per_page, page_number, link_number) ==
  links_per_page * page_number + link_number + 1

\* main.py:247  AnnotationBuilder.link(rect, target_page_index=...) added to
\* page page_number
Annotation(page_number, rect, target) == [page |-> page_number, rect |-> rect, target |-> target]

\* the (page_number, link_number) pairs in the order of the two loops
RECURSIVE Positions(_, _)
Positions(rects, p) ==
  IF p >= Len(rects) THEN <<>>
  ELSE [k \in 1..Len(rects[p + 1]) |-> <<p, k - 1>>] \o Positions(rects, p + 1)

\* main.py:243-247  the annotations added by the two loops
Annotations(rects, info) ==
  LET pos == Positions(rects, 0)
  IN [n \in 1..Len(pos) |->
        Annotation(pos[n][1], rects[pos[n][1] + 1][pos[n][2] + 1],
                   info[InfoIndex(LinksPerPage(rects), pos[n][1], pos[n][2])].start_page)]

\* the pdf_info[...] of main.py:246 raises IndexError
IndexInRange(rects, info) ==
  \A p \in 0..(Len(rects) - 1) : \A k \in 0..(Len(rects[p + 1]) - 1) :
    InfoIndex(LinksPerPage(rects), p, k) \in 1..Len(info)

\* main.py:234-253 called at main.py:285
add_internal_links ==
  /\ stage = "annotate"
  /\ IndexInRange(link_rects, pdf_info)
  /\ output' = [state |-> "linked", pages |-> output.pages,
                links |-> Annotations(link_rects, pdf_info)]
  /\ stage' = "done"
  /\ UNCHANGED <<inputVars, crawlVars, toc, link_rects, toc_file, writer, total_pages>>

\* main.py:235-251 raise: before the file is opened for writing the merged
\* document stays as combine_pdfs wrote it, after open(..., "wb") it is cut
AnnotateFails ==
  /\ stage = "annotate"
  /\ \/ output' = output
     \/ /\ IndexInRange(link_rects, pdf_info)
        /\ output' = [state |-> "truncated", pages |-> <<>>, links |-> <<>>]
  /\ stage' = "aborted"
  /\ UNCHANGED <<inputVars, crawlVars, toc, link_rects, toc_file, writer, total_pages>>

\* ----------------------------------------------------------- specification
Crawl ==
  \/ Enter \/ NewContext \/ NewPage \/ OpenFails
  \/ Goto \/ GotoFails \/ CheckHash
  \/ SavePdf \/ SavePdfFails \/ AppendRecord \/ TitleFails
  \/ SkipLink \/ FollowLink \/ LinkRaises \/ LinksDone
  \/ Catch \/ Finally \/ CrawlReturns \/ CrawlRaises

Assemble ==
  \/ create_table_of_contents \/ DrawEntry \/ SaveToc
  \/ combine_pdfs \/ AppendDocument \/ CombineFails \/ WriteCombined
  \/ add_internal_links \/ AnnotateFails

Next == Crawl \/ SkipFirst \/ Assemble

Spec == Init /\ [][Next]_vars

\* One thread of control runs main() statement after statement: a step that
\* can be taken is taken.
LiveSpec == Init /\ [][Next]_vars /\ WF_vars(Next)

\* The assembly stages on record lists of every length up to MaxRecords, as
\* main() hands them over at main.py:278: the records as the crawl leaves
\* them, one stored document per record, for which PdfReader reports any
\* page count from 0 to MaxDocPages.
AsmUrl(i) == Http(<<"e.com">>, <<"/", "p", i>>)

AsmPath(i) == <<"website_pdfs", "/", "p", i, ".pdf">>

AsmRecord(i) ==
  [title |-> Title("T", 54 + i), url |-> AsmUrl(i), file_path |-> AsmPath(i),
   num_pages |-> None, start_page |-> None]

AsmInit ==
  /\ site = SiteChain
  /\ max_depth = 0
  /\ exclude_texts = <<>>
  /\ visited = {}
  /\ visited_hashes = {}
  /\ stack = <<>>
  /\ exc = FALSE
  /\ contexts = 0
  /\ pages_open = 0
  /\ log = <<>>
  /\ \E n \in 0..MaxRecords : \E pat \in [0..1 -> 0..MaxDocPages] :
       /\ pdf_info = [i \in 1..n |-> AsmRecord(i)]
       /\ files = {[path |-> AsmPath(i), pages |-> pat[i % 2], of |-> AsmUrl(i)] : i \in 1..n}
  /\ stage = "toc"
  /\ toc = NoToc
  /\ link_rects = <<>>
  /\ toc_file = <<>>
  /\ writer = NoWriter
  /\ total_pages = 0
  /\ output = NoOutput
  /\ url_in = RootUrl
  /\ url_perm = RootUrl
  /\ normalized = <<>>
  /\ normalized_perm = <<>>

AsmNext == Assemble

AsmSpec == AsmInit /\ [][AsmNext]_vars

\* normalize_url on its own, on URLs of every shape it tells apart: scheme
\* and host in either case, "www." labels, ports, trailing slashes, query
\* parameters in every order, a fragment.
WwwLabels(k) == [i \in 1..k |-> "www."]

UrlSchemes == {"http", "https", "HTTP"}

UrlPorts == {<<>>, <<":80">>, <<":443">>, <<":8080">>}

UrlNetlocs ==
  {WwwLabels(k) \o <<h>> \o p : k \in 0..MaxWww, h \in {"e.com", "E.COM"}, p \in UrlPorts}
  \cup {<<"WWW.", "e.com">>}

UrlPaths == {<<>>, <<"/">>, <<"/", "a">>, <<"/", "A", "/">>, <<"/", "a", "/", "/">>}

QueryPairs == ({"a", "b", "B"} \X {"1", "2"}) \cup {<<"k", "">>}

Queries == UNION {[1..n -> QueryPairs] : n \in 0..MaxParams}

\* the orders one list of query parameters can be written in
Orders(q) ==
  {[i \in 1..Len(q) |-> q[f[i]]] :
     f \in {g \in [1..Len(q) -> 1..Len(q)] : \A i, j \in 1..Len(q) : g[i] = g[j] => i = j}}

UrlInputs ==
  {Url(s, n, p, q, f) : s \in UrlSchemes, n \in UrlNetlocs, p \in UrlPaths,
                        q \in {<<>>, <<<<"B", "1">>, <<"a", "2">>>>}, f \in {"", "top"}}
  \cup {Url("http", <<"e.com">>, <<"/", "a">>, q, "") : q \in Queries}

NormInit ==
  /\ site = SiteChain
  /\ max_depth = 0
  /\ exclude_texts = <<>>
  /\ visited = {}
  /\ visited_hashes = {}
  /\ pdf_info = <<>>
  /\ stack = <<>>
  /\ exc = FALSE
  /\ contexts = 0
  /\ pages_open = 0
  /\ files = {}
  /\ log = <<>>
  /\ stage = "done"
  /\ toc = NoToc
  /\ link_rects = <<>>
  /\ toc_file = <<>>
  /\ writer = NoWriter
  /\ total_pages = 0
  /\ output = NoOutput
  /\ url_in \in UrlInputs
  /\ url_perm \in {[url_in EXCEPT !.query = q] : q \in Orders(url_in.query)}
  /\ normalized = <<>>
  /\ normalized_perm = <<>>

\* normalize_url(url) and normalize_url(url_perm)
Normalize ==
  /\ normalized = <<>>
  /\ normalized' = <<normalize_url(url_in)>>
  /\ normalized_perm' = <<normalize_url(url_perm)>>
  /\ UNCHANGED <<site, max_depth, exclude_texts, url_in, url_perm, crawlVars, stage, mainVars>>

\* normalize_url on its own result
Renormalize ==
  /\ Len(normalized) = 1
  /\ normalized' = Append(normalized, normalize_url(normalized[1]))
  /\ UNCHANGED <<site, max_depth, exclude_texts, url_in, url_perm, normalized_perm, crawlVars,
                 stage, mainVars>>

NormNext == Normalize \/ Renormalize

NormSpec == NormInit /\ [][NormNext]_vars

\* ================================================================== claims
EventsOf(kinds) == {k \in 1..Len(log) : log[k].ev \in kinds}

\* the canonical URLs within k links of the root, links resolved as the crawl
\* resolves them
RECURSIVE Within(_)
Within(k) ==
  IF k = 0 THEN {normalize_url(site.root)}
  ELSE LET near == Within(k - 1)
       IN near \cup UNION {{normalize_url(NextUrl(PageAt(site, u).links[n].href)) :
                              n \in 1..Len(PageAt(site, u).links)} : u \in near}

\* C1: in every reachable state no canonical URL was navigated to twice, and
\* the url fields of the records of pdf_info are pairwise distinct
C1_EachUrlOnce ==
  /\ \A i, j \in EventsOf({"goto", "goto_failed"}) : log[i].url = log[j].url => i = j
  /\ \A i, j \in 1..Len(pdf_info) : pdf_info[i].url = pdf_info[j].url => i = j

\* C1 witness: the cyclic site was crawled to the end, all three pages recorded
C1_Witness ==
  /\ site = SiteCycle /\ stage = "crawled"
  /\ Len(pdf_info) = 3
  /\ Cardinality(EventsOf({"goto"})) = 3

\* C2: every navigation, stored document and record comes from a visit with
\* depth <= max_depth, the records are those visits' in order, every recorded
\* URL lies within max_depth links of the root, and with max_depth = 1 the
\* chain root -> A -> B -> C yields no record for B or C
C2_DepthBounded ==
  /\ \A k \in EventsOf({"goto", "goto_failed", "saved", "append"}) : log[k].depth <= max_depth
  /\ stage = "crawl" => Len(pdf_info) = Cardinality(EventsOf({"append"}))
  /\ stage \in {"crawl", "crawled"} => \A i \in 1..Len(pdf_info) : pdf_info[i].url \in Within(max_depth)
  /\ (site = SiteChain /\ max_depth = 1) =>
       \A i \in 1..Len(pdf_info) : pdf_info[i].url \notin {UrlB, UrlC}

\* C2 witness: on the chain with max_depth = 1 the visit of B at depth 2 was
\* turned away and the crawl ended with the records of the root and A
C2_Witness ==
  /\ site = SiteChain /\ max_depth = 1 /\ stage = "crawled"
  /\ Len(pdf_info) = 2
  /\ \E k \in EventsOf({"stop"}) : log[k].depth = 2 /\ log[k].url = UrlB

\* C3: the traversal started at (root, 0) ends, on every site and max_depth
C3_TraversalEnds == <>(stage # "crawl")

\* C3 witness: the traversal of the cyclic site returned after visiting the
\* whole cycle
C3_Witness ==
  /\ site = SiteCycle /\ stage = "crawled"
  /\ visited = {RootUrl, UrlA, UrlB}
  /\ stack = <<>>

\* the url fields of a record list
UrlsOf(info) == [i \in 1..Len(info) |-> info[i].url]

\* the canonical URLs of the records the traversal appended, in order
AppendedUrls == UrlsOf(SelectSeq(log, LAMBDA e : e.ev = "append"))

\* the pages of the documents stored at the file paths of a record list
RECURSIVE StoredPages(_)
StoredPages(info) ==
  IF info = <<>> THEN <<>>
  ELSE PagesOf(FileAt(Head(info).file_path).of, FileAt(Head(info).file_path).pages)
       \o StoredPages(Tail(info))

RECURSIVE SumPages(_)
SumPages(info) == IF info = <<>> THEN 0 ELSE Head(info).num_pages + SumPages(Tail(info))

Failures ==
  EventsOf({"open_failed", "goto_failed", "save_failed", "title_failed", "href_failed", "caught"})

\* the end-to-end scenario: the root and three linked pages, one serving the
\* HTML of another, max_depth 2, no exclusions, nothing fails
EndToEndRun ==
  site = SiteEndToEnd /\ max_depth = 2 /\ exclude_texts = <<>> /\ Failures = {}

Returned(url) == \E k \in EventsOf({"return"}) : log[k].url = url

\* C5: once two distinct canonical URLs serving the same HTML were both
\* visited, exactly one record was appended and exactly one document stored
\* for that HTML; no two appended records share a fingerprint
C5_OneRecordPerContent ==
  /\ \A i, j \in EventsOf({"goto"}) :
       (log[i].url # log[j].url /\ log[i].html = log[j].html
        /\ Returned(log[i].url) /\ Returned(log[j].url)) =>
         /\ Cardinality({k \in EventsOf({"append"}) : log[k].html = log[i].html}) = 1
         /\ Cardinality({k \in EventsOf({"saved"}) : log[k].html = log[i].html}) = 1
  /\ \A a, b \in EventsOf({"append"}) : log[a].html = log[b].html => a = b

\* C6: once combine_pdfs is through, the first record starts at the TOC's page
\* count, each next record starts where the previous one ends, and the counter
\* equals the number of pages written
C6_Offsets ==
  stage \in {"annotate", "done"} =>
    /\ Len(pdf_info) > 0 => pdf_info[1].start_page = Len(toc_file)
    /\ \A i \in 1..(Len(pdf_info) - 1) :
         pdf_info[i + 1].start_page = pdf_info[i].start_page + pdf_info[i].num_pages
    /\ total_pages = Len(output.pages)

\* C6 witness: forty records behind a two-page TOC, documents of different
\* page counts
C6_Witness ==
  /\ stage = "annotate" /\ Len(pdf_info) = 40 /\ Len(toc_file) = 2
  /\ pdf_info[1].num_pages # pdf_info[2].num_pages

\* the records whose title line was drawn on the TOC page of annotation a at
\* the place of its rectangle
LinesAt(a) ==
  IF a.page + 1 \in 1..Len(toc_file)
  THEN LET page == toc_file[a.page + 1]
       IN {page[n].entry : n \in {m \in 1..Len(page) :
              page[m].entry > 0 /\ LinkRect(page[m].text, page[m].y) = a.rect}}
  ELSE {}

\* C7: in the linked document every annotation lies on one title line, on the
\* TOC page the line was drawn on, and targets the start_page of the record
\* the line names, where the first page of that record's document is when
\* the document has a page; every record's line has its annotation
C7_LinkTargets ==
  stage = "done" =>
    /\ \A n \in 1..Len(output.links) :
         \E e \in 1..Len(pdf_info) :
           /\ LinesAt(output.links[n]) = {e}
           /\ output.pages[output.links[n].page + 1] = [doc |-> "toc", page |-> output.links[n].page + 1]
           /\ output.links[n].target = pdf_info[e].start_page
           /\ pdf_info[e].num_pages > 0 =>
                output.pages[output.links[n].target + 1] = [doc |-> pdf_info[e].url, page |-> 1]
    /\ \A e \in 1..Len(pdf_info) :
         \E n \in 1..Len(output.links) : LinesAt(output.links[n]) = {e}
    /\ Len(output.links) = Len(pdf_info)

\* C7 witness: a linked document whose TOC spilled over to a second page
C7_Witness ==
  /\ stage = "done" /\ Len(output.links) = 40
  /\ output.links[40].page = 1
  /\ output.links[40].target = pdf_info[40].start_page

\* C8: no exception leaves an activation of crawl_and_save_pdf, and an
\* activation that recorded its page ends only after all its links were
\* considered
C8_FailureConfined ==
  /\ ~exc
  /\ (At("finally") /\ (\E k \in EventsOf({"append"}) : log[k].url = Top.normalized_url)) =>
       Top.i > Len(Top.page.links)

\* C9: an aborted run leaves no merged document at the final output path
\* that lacks links of its TOC lines
C9_NoUnlinkedArtifact ==
  stage = "aborted" => ~(output.state = "merged" /\ Len(output.links) < Len(pdf_info))

\* C10: the rectangles returned, read page by page, are one per record in the
\* order of the records: the k-th is the rectangle of the title line of record
\* k, filed under the TOC page that line was drawn on
C10_RectPerRecord ==
  stage \in {"combine", "combine_loop", "annotate", "done"} =>
    LET pos == Positions(link_rects, 0)
    IN /\ Len(pos) = Len(pdf_info)
       /\ \A k \in 1..Len(pos) :
            LET p == pos[k][1] + 1
                r == link_rects[p][pos[k][2] + 1]
            IN /\ p <= Len(toc_file)
               /\ \E m \in 1..Len(toc_file[p]) :
                    /\ toc_file[p][m].entry = k
                    /\ toc_file[p][m].text = Shorten(pdf_info[k].title)
                    /\ r = LinkRect(toc_file[p][m].text, toc_file[p][m].y)

\* C10 witness: 33 records, the last one alone on the second TOC page
C10_Witness ==
  /\ stage = "combine" /\ Len(pdf_info) = 33
  /\ Len(link_rects) = 2 /\ Len(link_rects[1]) = 32 /\ Len(link_rects[2]) = 1

\* C11: normalize_url is idempotent: applied to its own result it returns that
\* result, for every URL (hosts with repeated "www." labels, paths with
\* several trailing slashes, query keys that differ in letter case).
C11_Idempotent == Len(normalized) = 2 => normalized[2] = normalized[1]

\* C12: two URLs that differ only in the order of their query parameters
\* have the same normalize_url result, for every order of every parameter
\* list, repeated keys and keys that differ only in letter case included.
C12_OrderInsensitive ==
  (normalized # <<>> /\ normalized_perm # <<>>) => normalized[1] = normalized_perm[1]

SameKey(p, q) == LowerTok(p[1]) = LowerTok(q[1])

C12_Witness ==
  /\ normalized # <<>>
  /\ Len(url_in.query) = 2
  /\ url_perm.query # url_in.query
  /\ SameKey(url_in.query[1], url_in.query[2])
  /\ Len(normalized[1].query) = 2

\* the link through which activation k of the stack was entered
LinkInto(k) == stack[k - 1].page.links[stack[k - 1].i - 1]

\* the host a URL names, however it is written
HostOf(u) == normalize_url(u).netloc

\* the link text is empty or contains an excluded entry, letter case aside
TextExcluded(link_text) ==
  \/ Len(link_text) = 0
  \/ \E k \in 1..Len(exclude_texts) : IsSubstring(LowerSeq(exclude_texts[k]), LowerSeq(link_text))

Descends == Len(stack') = Len(stack) + 1 /\ stack'[Len(stack')].depth = Top.depth + 1

\* C13: a link whose resolved URL is on another host than the root URL is
\* skipped, and a link on the root URL's host, with a text that is not
\* excluded and a canonical form not yet visited, is descended into with
\* depth + 1, however the root URL is written ("www.", upper case, ":80").
C13_HostDecides ==
  [][(AtLink /\ ~IsMalformed(CurrentLink.href)) =>
       LET next_url == NextUrl(CurrentLink.href)
       IN /\ HostOf(next_url) # HostOf(site.root) => ~Descends
          /\ (/\ HostOf(next_url) = HostOf(site.root)
              /\ ~TextExcluded(CurrentLink.text)
              /\ normalize_url(next_url) \notin visited) => Descends]_vars

\* C14: a link with an empty text is never descended into, whatever the
\* list of excluded texts, the empty list included; nor is a link whose
\* text contains an excluded entry, letter case aside.
C14_ExcludedNeverFollowed ==
  \A k \in 2..Len(stack) : ~TextExcluded(LinkInto(k).text)

\* C15: every href is resolved against the URL of the page its anchor is on,
\* not against the root URL: the activation entered through a link has the
\* URL urljoin(URL of the linking page, href).
C15_ResolvedAgainstPage ==
  \A k \in 2..Len(stack) : stack[k].url = urljoin(stack[k - 1].url, LinkInto(k).href)

\* the events of the records appended, in order
Appends == SelectSeq(log, LAMBDA e : e.ev = "append")

\* path p comes before path q in pre-order: p is a proper prefix of q, or at
\* the first link where they part p takes the earlier one
LexLess(p, q) ==
  \E n \in 0..Len(p) :
    /\ n <= Len(q)
    /\ \A k \in 1..n : p[k] = q[k]
    /\ \/ n = Len(p) /\ n < Len(q)
       \/ n < Len(p) /\ n < Len(q) /\ p[n + 1] < q[n + 1]

\* the title lines of the TOC, page after page, each page from the top down
RECURSIVE TocLines(_)
TocLines(pages) ==
  IF pages = <<>> THEN <<>>
  ELSE SelectSeq(Head(pages), LAMBDA d : d.entry > 0) \o TocLines(Tail(pages))

\* C16: the records are appended in depth-first pre-order of first
\* discovery (a page before the pages reached through its links, the pages
\* under an earlier link before those under a later link), pdf_info lists
\* them in that order, and the title lines of the TOC and the documents of
\* the merged output follow the order of pdf_info.
C16_PreOrder ==
  /\ \A a, b \in 1..Len(Appends) : a < b => LexLess(Appends[a].via, Appends[b].via)
  /\ Len(pdf_info) <= Len(Appends)
  /\ UrlsOf(pdf_info) = SubSeq(AppendedUrls, Len(Appends) - Len(pdf_info) + 1, Len(Appends))
  /\ stage \in {"combine", "combine_loop", "annotate", "done"} =>
       LET lines == TocLines(toc_file)
       IN /\ Len(lines) = Len(pdf_info)
          /\ \A k \in 1..Len(lines) :
               lines[k].entry = k /\ lines[k].text = Shorten(pdf_info[k].title)
          /\ \A n \in 1..Len(toc_file) : \A k \in 1..(Len(toc_file[n]) - 1) :
               toc_file[n][k].entry > 0 => toc_file[n][k].y > toc_file[n][k + 1].y
  /\ stage \in {"annotate", "done"} => output.pages = TocPages \o StoredPages(pdf_info)

\* C16 witness: the tree root -> (A -> C), B crawled and assembled: C, found
\* under the first link of the root, is recorded before B
C16_Witness ==
  /\ site = SiteTree /\ max_depth = 2 /\ stage = "done"
  /\ AppendedUrls = <<RootUrl, UrlA, UrlC, UrlB>>
  /\ UrlsOf(pdf_info) = <<UrlA, UrlC, UrlB>>
  /\ Len(TocLines(toc_file)) = 3

StageOrder ==
  {<<"crawl", "crawled">>, <<"crawl", "aborted">>, <<"crawled", "toc">>, <<"toc", "toc_loop">>,
   <<"toc_loop", "combine">>, <<"combine", "combine_loop">>, <<"combine_loop", "annotate">>,
   <<"combine_loop", "aborted">>, <<"annotate", "done">>, <<"annotate", "aborted">>}

Unset(info) == info.num_pages = None /\ info.start_page = None

IsSet(info) == info.num_pages >= 0 /\ info.start_page >= 0

\* C17: the stages follow one another as traversal, TOC layout, assembly,
\* annotation; num_pages and start_page of every record are None until
\* combine_pdfs runs, combine_pdfs writes them once, record after record,
\* and no annotation is made from a start_page that is not set.
C17_StagesInOrder ==
  /\ [](/\ stage \in {"crawl", "crawled"} =>
            toc = NoToc /\ toc_file = <<>> /\ writer = NoWriter /\ output = NoOutput
        /\ stage \in {"toc", "toc_loop"} => stack = <<>> /\ writer = NoWriter /\ output = NoOutput
        /\ stage \in {"combine", "combine_loop"} => toc_file # <<>> /\ output = NoOutput
        /\ stage \in {"crawl", "crawled", "toc", "toc_loop", "combine"} =>
            \A i \in 1..Len(pdf_info) : Unset(pdf_info[i])
        /\ stage = "combine_loop" =>
            \A i \in 1..Len(pdf_info) :
              IF i <= writer.i THEN IsSet(pdf_info[i]) ELSE Unset(pdf_info[i])
        /\ stage \in {"annotate", "done"} => \A i \in 1..Len(pdf_info) : IsSet(pdf_info[i])
        /\ stage = "done" => \A n \in 1..Len(output.links) : output.links[n].target >= 0)
  /\ [][/\ stage' # stage => <<stage, stage'>> \in StageOrder
        /\ \A i \in 1..Len(pdf_info) :
             ~Unset(pdf_info[i]) => Len(pdf_info') = Len(pdf_info) /\ pdf_info'[i] = pdf_info[i]]_vars

\* C17 witness: a run that went through all the stages with three records
C17_Witness ==
  /\ site = SiteTree /\ stage = "done" /\ Len(pdf_info) = 3
  /\ output.state = "linked" /\ Len(output.links) = 3
  /\ \A i \in 1..3 : IsSet(pdf_info[i])

\* C18 as stated: after assembly start_page is strictly increasing along the
\* record list, whatever page counts the reader reports
C18_StrictlyIncreasing ==
  stage \in {"annotate", "done"} =>
    \A i \in 1..(Len(pdf_info) - 1) : pdf_info[i].start_page < pdf_info[i + 1].start_page

\* C18 amended: after assembly start_page never decreases along the record
\* list, and it increases from a record to the next exactly when the reader
\* reported at least one page for that record's document
C18_IncreasingByPages ==
  stage \in {"annotate", "done"} =>
    \A i \in 1..(Len(pdf_info) - 1) :
      /\ pdf_info[i].start_page <= pdf_info[i + 1].start_page
      /\ pdf_info[i].start_page < pdf_info[i + 1].start_page <=> pdf_info[i].num_pages > 0

\* C18 witness: documents without a page among documents with pages
C18_Witness ==
  /\ stage = "annotate" /\ Len(pdf_info) = 4
  /\ pdf_info[1].num_pages = 0 /\ pdf_info[2].num_pages = 2
  /\ pdf_info[1].start_page = pdf_info[2].start_page
  /\ pdf_info[2].start_page < pdf_info[3].start_page

\* C19: two records with distinct canonical URLs never have the same
\* file_path.
C19_DistinctPaths ==
  \A i, j \in 1..Len(pdf_info) :
    pdf_info[i].url # pdf_info[j].url => pdf_info[i].file_path # pdf_info[j].file_path

\* C20: normalize_url removes an explicit port only when it is the default
\* of the URL's scheme (80 for http, 443 for https): ":80" on an https URL
\* and ":443" on an http URL stay in the result, which differs from the
\* result of the same URL without the port.
LastOf(s) == IF s = <<>> THEN "" ELSE s[Len(s)]

NonDefaultPort(u) ==
  \/ LowerTok(u.scheme) = "https" /\ LastOf(u.netloc) = ":80"
  \/ LowerTok(u.scheme) = "http" /\ LastOf(u.netloc) = ":443"
  \/ LastOf(u.netloc) = ":8080"

WithoutPort(u) == [u EXCEPT !.netloc = SubSeq(u.netloc, 1, Len(u.netloc) - 1)]

C20_OnlyDefaultPortRemoved ==
  (normalized # <<>> /\ NonDefaultPort(url_in)) =>
    /\ LastOf(normalized[1].netloc) = LastOf(url_in.netloc)
    /\ normalized[1] # normalize_url(WithoutPort(url_in))

\* C21: a visit that stops at its entry (canonical URL already visited, or
\* depth > max_depth) returns at once: it opens no context and no page and
\* leaves visited, visited_hashes and pdf_info as they are, so a URL turned
\* away for its depth alone is not in visited; visited and visited_hashes
\* only ever grow.
C21_StopChangesNothing ==
  /\ [][(At("enter") /\ (Top.normalized_url \in visited \/ Top.depth > max_depth)) =>
          /\ stack' = Pop
          /\ contexts' = contexts /\ pages_open' = pages_open
          /\ visited' = visited /\ visited_hashes' = visited_hashes /\ pdf_info' = pdf_info]_vars
  /\ [][visited \subseteq visited' /\ visited_hashes \subseteq visited_hashes']_vars

\* C21 witness: on the chain with max_depth = 1 the visit of B was turned
\* away at depth 2 and B is not in visited when the traversal has returned
C21_Witness ==
  /\ site = SiteChain /\ max_depth = 1 /\ stage = "crawled"
  /\ \E k \in EventsOf({"stop"}) : log[k].url = UrlB /\ log[k].depth = 2
  /\ visited = {RootUrl, UrlA}
  /\ contexts = 0

\* the visits that inserted their fingerprint and have not yet appended
\* their record or failed
Persisting(html) == \E k \in 1..Len(stack) : stack[k].pc \in {"pdf", "title"} /\ stack[k].page.html = html

\* C22: whenever a visit is discarded as a content duplicate a record of a
\* page with the same content, and its stored document, exist; every
\* fingerprint in visited_hashes belongs to exactly one record, also after
\* page.pdf or the title extraction failed.
C22_HashHasRecord ==
  /\ \A k \in EventsOf({"duplicate"}) :
       \E a \in EventsOf({"append"}) : a < k /\ log[a].html = log[k].html
  /\ \A k \in EventsOf({"goto"}) :
       (sha256(log[k].html) \in visited_hashes /\ ~Persisting(log[k].html)) =>
         /\ Cardinality({a \in EventsOf({"append"}) : log[a].html = log[k].html}) = 1
         /\ Cardinality({a \in EventsOf({"saved"}) : log[a].html = log[k].html}) = 1

\* nothing is excluded, nothing failed, no page was discarded as a duplicate
CleanRun == exclude_texts = <<>> /\ Failures = {} /\ EventsOf({"duplicate"}) = {}

Recorded == {AppendedUrls[k] : k \in 1..Len(AppendedUrls)}

\* C23 as stated: in a clean run every page of the root's host within
\* max_depth links of the root, by its shortest path, has a record when the
\* traversal has returned, whatever the order of the links
C23_ShortestDistanceCovered ==
  (stage = "crawled" /\ CleanRun) =>
    \A u \in Within(max_depth) : HostOf(u) = HostOf(site.root) => u \in Recorded

\* C23 amended: in a clean run the root has a record, and so has every page
\* that a page recorded at a depth below max_depth links to by a link that
\* passes the host test of the walk
C23_ReachedCovered ==
  (stage = "crawled" /\ CleanRun) =>
    /\ normalize_url(site.root) \in Recorded
    /\ \A a \in EventsOf({"append"}) : log[a].depth < max_depth =>
         \A n \in 1..Len(PageAt(site, log[a].url).links) :
           LET next_url == normalize_url(NextUrl(PageAt(site, log[a].url).links[n].href))
           IN next_url.netloc = site.root.netloc => next_url \in Recorded

\* C23 witness: root -> A -> B -> C and root -> B with max_depth = 2: B is
\* first reached through A at depth 2, C is two links from the root and has
\* no record
C23_Witness ==
  /\ site = SiteLongerPathFirst /\ max_depth = 2 /\ stage = "crawled" /\ CleanRun
  /\ AppendedUrls = <<RootUrl, UrlA, UrlB>>
  /\ UrlC \in Within(2) /\ UrlC \notin Recorded

\* the activations that hold a browser context, and those that hold a page
HoldsContext == {k \in 1..Len(stack) : stack[k].pc \notin {"enter", "new_context"}}

HoldsPage == {k \in 1..Len(stack) : stack[k].pc \notin {"enter", "new_context", "new_page"}}

\* C24: the contexts and pages open are those of the activations on the
\* stack, one each, parents included while their links are descended into:
\* what a visit opened is closed when it returns, however it ends; at most
\* max_depth + 1 contexts are open at once and none when the traversal has
\* returned.
C24_ContextsClosed ==
  /\ contexts = Cardinality(HoldsContext)
  /\ pages_open = Cardinality(HoldsPage)
  /\ contexts <= max_depth + 1
  /\ stage # "crawl" => contexts = 0 /\ pages_open = 0

====
